---------------------------- MODULE Spec2Model ----------------------------
(***************************************************************************)
(* Model of the tool-calling orchestration loop of the WhatsApp teaching   *)
(* assistant: app/ai.py (generate_response, execute_tool_call,             *)
(* _format_messages, create_langchain_tools), app/tools/registry.py        *)
(* (get_tools_metadata), app/tools/generate_exercise.py (generate_exercise,*)
(* _format_context) and app/database/db.py (the message store,             *)
(* get_or_create_user, assign_teacher_to_classes).                         *)
(*                                                                         *)
(* Conventions.  A Python Optional[T] is a sequence of length 0 (None) or  *)
(* 1 (the value).  A Python dict is a record [keys, val]: the keys in      *)
(* insertion order and the mapping.  A Python str is a TLA+ string.        *)
(***************************************************************************)
EXTENDS Integers, Sequences, FiniteSets, TLC

VARIABLES
    db,             \* the messages table, in created_at order
    tools_metadata, \* registry.py's module-level template list
    t,              \* per task: the frame of its generate_response call
    reg,            \* log of direct get_tools_metadata calls (user, result)
    fmt,            \* input and outcome of a direct _format_messages call
    xtc,            \* the frame of a direct execute_tool_call call
    user_table,     \* the users table, in insertion order
    schema,         \* the constraints the users table was created with
    guc,            \* per task: the frame of its get_or_create_user call
    teacher_classes,\* the TeacherClass table: the number of rows of each pair
    atc,            \* the assign_teacher_to_classes calls made: count, last
    ctx             \* input and outcome of generate_exercise's prompt building

vars == <<db, tools_metadata, t, reg, fmt, xtc, user_table, schema, guc,
          teacher_classes, atc, ctx>>

\* the state outside the orchestration loop, its registry and its formatter
side == <<xtc, user_table, schema, guc, teacher_classes, atc, ctx>>

\* the state of the orchestration loop, its registry and its formatter
core == <<db, tools_metadata, t, reg, fmt>>

None == <<>>
Some(x) == <<x>>

Range(s) == {s[i] : i \in 1..Len(s)}

---------------------------------------------------------------------------
(* Bounds of the model.                                                    *)

\* longest tool_calls list an LLM response carries
MaxCalls == 2
\* longest sequence of direct get_tools_metadata calls
MaxRegCalls == 4
\* longest history and longest new-message list given to _format_messages
MaxHist == 3
MaxNew == 2
\* longest tool_calls list of a response when two turns are interleaved
MaxInterleavedCalls == 1
\* most get_or_create_user calls one task makes
MaxUserCalls == 2
\* longest sequence of assign_teacher_to_classes calls, longest class_ids list
MaxAssignCalls == 2
MaxClassIds == 2
\* most chunks a vector search returns to generate_exercise (at most n_results)
MaxChunks == 3
\* most completed turns in the store before the turn that is followed
MaxPriorTurns == 3

---------------------------------------------------------------------------
(* Users.  User.class_name_to_id_map and User.formatted_class_info are     *)
(* read by ai.py; the model fixes three users.                             *)

Dict(keys, val) == [keys |-> keys, val |-> val]
EmptyDict == [keys |-> <<>>, val |-> <<>>]

\* teaches classes 1 and 2
Asha ==
    [wa_id |-> "255-1", id |-> Some(1), name |-> "Asha",
     class_name_to_id_map |->
         Dict(<<"Geography Form 2", "Mathematics Form 1">>,
              [k \in {"Geography Form 2", "Mathematics Form 1"} |->
                  IF k = "Geography Form 2" THEN 1 ELSE 2]),
     formatted_class_info |-> "Geography: Form 2; Mathematics: Form 1"]

\* teaches class 3
Baraka ==
    [wa_id |-> "255-2", id |-> Some(2), name |-> "Baraka",
     class_name_to_id_map |->
         Dict(<<"Biology Form 3">>, [k \in {"Biology Form 3"} |-> 3]),
     formatted_class_info |-> "Biology: Form 3"]

\* a user record that was never stored: it has no id
Neema ==
    [wa_id |-> "255-3", id |-> None, name |-> "Neema",
     class_name_to_id_map |-> EmptyDict,
     formatted_class_info |-> ""]

Users == {Asha, Baraka, Neema}

\* the class ids a user teaches: the values of the user's class map
ClassIdsOf(user) ==
    {user.class_name_to_id_map.val[k] : k \in Range(user.class_name_to_id_map.keys)}

---------------------------------------------------------------------------
(* json.dumps / json.loads of a flat {str: int} dict.  The JSON text is    *)
(* the ordered list of its members <<key, value>>; JsonString renders it.  *)

JsonDumps(d) == [i \in 1..Len(d.keys) |-> <<d.keys[i], d.val[d.keys[i]]>>]

RECURSIVE JsonKeys(_)
JsonKeys(text) ==
    IF text = <<>> THEN <<>>
    ELSE LET rest == JsonKeys(SubSeq(text, 1, Len(text) - 1))
             k == text[Len(text)][1]
         IN  IF k \in Range(rest) THEN rest ELSE Append(rest, k)

\* a repeated member name keeps its first position and its last value
JsonLoads(text) ==
    LET keys == JsonKeys(text)
        last(k) == CHOOSE i \in 1..Len(text) :
                       /\ text[i][1] = k
                       /\ \A j \in (i+1)..Len(text) : text[j][1] # k
    IN  Dict(keys, [k \in Range(keys) |-> text[last(k)][2]])

RECURSIVE JsonMembers(_)
JsonMembers(text) ==
    IF text = <<>> THEN ""
    ELSE LET m == "\"" \o text[1][1] \o "\": " \o ToString(text[1][2])
         IN  IF Len(text) = 1 THEN m ELSE m \o ", " \o JsonMembers(Tail(text))

JsonString(text) == "{" \o JsonMembers(text) \o "}"

\* list(d.values())
DictValues(d) == [i \in 1..Len(d.keys) |-> d.val[d.keys[i]]]

---------------------------------------------------------------------------
(* app/tools/registry.py                                                   *)

Prop(name, type, description) ==
    [name |-> name, type |-> type, description |-> description, enum |-> None]

ToolsMetadataTemplate ==
    << [type |-> "function",
        name |-> "search_knowledge",
        description |-> "Get relevant information from the knowledge base.",
        properties |->
          << Prop("search_phrase", "string",
                  "A message describing the information you are looking for."),
             Prop("class_id", "integer",
                  "The class id of the course the question should be based on. Available class IDs: {available_class_ids}") >>,
        required |-> <<"search_phrase", "class_id">>],
       [type |-> "function",
        name |-> "generate_exercise",
        description |-> "Generate a single question for the students based on course literature",
        properties |->
          << Prop("query", "string",
                  "A short message describing the desired question or exercise and the topic it should be about. Request just one question."),
             Prop("class_id", "integer",
                  "The class id of the course the question should be based on. Available class IDs: {available_class_ids}"),
             Prop("subject", "string",
                  "The subject of the course the question should be based on.") >>,
        required |-> <<"query", "class_id", "subject">>] >>

\* the body of the loop of get_tools_metadata, applied to one tool
FormatTool(tool, available_classes) ==
    [tool EXCEPT !.properties =
        [i \in 1..Len(tool.properties) |->
            IF tool.properties[i].name = "class_id"
            THEN [tool.properties[i] EXCEPT
                    !.description = "The class ID for the course. Available classes: "
                                    \o JsonString(available_classes),
                    !.enum = Some(DictValues(JsonLoads(available_classes)))]
            ELSE tool.properties[i]]]

\* a get_tools_metadata that formats the module-level list in place
GetToolsMetadataInPlace(template, available_classes) ==
    LET tools == [i \in 1..Len(template) |-> FormatTool(template[i], available_classes)]
    IN  [tools |-> tools, template |-> tools]

\* get_tools_metadata: the returned list, and the module-level list afterwards
GetToolsMetadata(template, available_classes) ==
    LET tools == [i \in 1..Len(template) |-> FormatTool(template[i], available_classes)]
    IN  [tools |-> tools, template |-> template]

\* the enum of the class_id parameter of the tool called `name` in `tools`
ClassIdEnum(tools, name) ==
    LET tool == CHOOSE x \in Range(tools) : x.name = name
        prop == CHOOSE p \in Range(tool.properties) : p.name = "class_id"
    IN  prop.enum

---------------------------------------------------------------------------
(* Messages (app.database.models.Message as ai.py builds and reads it).    *)

Message(user_id, role, content, tool_calls, tool_call_id, tool_name) ==
    [user_id |-> user_id, role |-> role, content |-> content,
     tool_calls |-> tool_calls, tool_call_id |-> tool_call_id,
     tool_name |-> tool_name]

\* Message.to_api_format: the role-tagged record sent to the LLM
ToApiFormat(msg) ==
    [role |-> msg.role, content |-> msg.content, tool_calls |-> msg.tool_calls,
     tool_call_id |-> msg.tool_call_id, name |-> msg.tool_name]

ApiMessage(role, content, tool_calls, tool_call_id, name) ==
    [role |-> role, content |-> content, tool_calls |-> tool_calls,
     tool_call_id |-> tool_call_id, name |-> name]

\* system_prompt.format(user_name=..., class_info=...)
SystemPrompt(user) ==
    "<role>You are Twiga ... You are talking to " \o user.name
        \o " who teaches " \o user.formatted_class_info \o ". ..."

---------------------------------------------------------------------------
(* app/ai.py: _format_messages.  A call either returns a list or raises.   *)

Returned(v) == [raised |-> None, value |-> v]
Raised(e) == [raised |-> Some(e), value |-> <<>>]

MapApi(msgs) == [i \in 1..Len(msgs) |-> ToApiFormat(msgs[i])]

\* database_messages[:-message_count] if message_count > 0 else database_messages
OldMessages(database_messages, message_count) ==
    IF message_count > 0
    THEN SubSeq(database_messages, 1, Len(database_messages) - message_count)
    ELSE database_messages

ConsistencyError(message_count, db_message_count) ==
    "Unusual message count scenario detected: There are " \o ToString(message_count)
        \o " new messages but only " \o ToString(db_message_count)
        \o " messages in the database."

\* a _format_messages that keeps the whole history (no duplicates excluded)
FormatMessagesKeepAll(new_messages, database_messages, user) ==
    LET system == <<ApiMessage("system", Some(SystemPrompt(user)), None, None, None)>>
        h == IF database_messages = None THEN <<>> ELSE database_messages[1]
    IN  Returned(system \o MapApi(h) \o MapApi(new_messages))

\* a _format_messages whose safety check is skipped
FormatMessagesNoCheck(new_messages, database_messages, user) ==
    LET system == <<ApiMessage("system", Some(SystemPrompt(user)), None, None, None)>>
        h == IF database_messages = None THEN <<>> ELSE database_messages[1]
    IN  Returned(system \o MapApi(OldMessages(h, Len(new_messages)))
                        \o MapApi(new_messages))

\* database_messages is an Optional list: None, or Some(list)
FormatMessages(new_messages, database_messages, user) ==
    LET system == <<ApiMessage("system", Some(SystemPrompt(user)), None, None, None)>>
        truthy == database_messages # None /\ database_messages[1] # <<>>
        h == IF truthy THEN database_messages[1] ELSE <<>>
        message_count == Len(new_messages)
        db_message_count == Len(h)
    IN  IF truthy /\ db_message_count < message_count
        THEN Raised(ConsistencyError(message_count, db_message_count))
        ELSE Returned(system
                      \o (IF truthy THEN MapApi(OldMessages(h, message_count)) ELSE <<>>)
                      \o MapApi(new_messages))

---------------------------------------------------------------------------
(* app/database/db.py: the message store.                                  *)

HistoryLimit == 10

\* the rows of one user, oldest first
UserRows(rows, user_id) == SelectSeq(rows, LAMBDA m : m.user_id = user_id)

\* get_user_message_history: None when the user has no row, else the most
\* recent `limit` rows in chronological order
GetUserMessageHistory(rows, user_id, limit) ==
    LET mine == UserRows(rows, user_id)
        n == Len(mine)
    IN  IF n = 0 THEN None
        ELSE Some(SubSeq(mine, IF n > limit THEN n - limit + 1 ELSE 1, n))

\* a create_new_message that flushes and never commits: the row is lost
\* when the session closes
CreateNewMessageNoCommit(rows, message) == rows

\* create_new_message: add and commit one row
CreateNewMessage(rows, message) == Append(rows, message)

\* classes_resources: the resources of each class (class 2 has none)
ClassResources(class_id) ==
    CASE class_id = 1 -> <<10, 11>>
      [] class_id = 3 -> <<12>>
      [] OTHER -> <<>>

\* get_class_resources: None when the class has no resource
GetClassResources(class_id) ==
    IF ClassResources(class_id) = <<>> THEN None ELSE Some(ClassResources(class_id))

---------------------------------------------------------------------------
(* Tool-call arguments.  A value of the args dict is a str, an int or      *)
(* absent (dict.get gives None).                                           *)

StrV(s) == [ty |-> "str", s |-> s, n |-> 0]
IntV(n) == [ty |-> "int", s |-> "", n |-> n]
NoneV == [ty |-> "none", s |-> "", n |-> 0]
\* a JSON true/false arrives as a Python bool, a subclass of int: int(True) = 1
BoolV(b) == [ty |-> "bool", s |-> "", n |-> IF b THEN 1 ELSE 0]

\* tool_args.get(key)
Get(d, key) == IF key \in Range(d.keys) THEN d.val[key] ELSE NoneV

\* Python truthiness, isinstance(v, str), isinstance(v, int)
Truthy(v) == (v.ty = "str" /\ v.s # "") \/ (v.ty \in {"int", "bool"} /\ v.n # 0)
IsStr(v) == v.ty = "str"
IsInt(v) == v.ty \in {"int", "bool"}

SearchArgs(search_phrase, class_id) ==
    Dict(<<"search_phrase", "class_id">>,
         [k \in {"search_phrase", "class_id"} |->
            IF k = "search_phrase" THEN search_phrase ELSE class_id])

ExerciseArgs(query, class_id, subject) ==
    Dict(<<"query", "class_id", "subject">>,
         [k \in {"query", "class_id", "subject"} |->
            IF k = "query" THEN query ELSE IF k = "class_id" THEN class_id ELSE subject])

\* what one entry of an LLM response's tool_calls can ask for: the bound
\* schemas carry no enum, so class_id is any integer the model writes
ToolRequests ==
    { [name |-> "search_knowledge", args |-> SearchArgs(StrV("mitosis"), IntV(1))],
      [name |-> "generate_exercise",
       args |-> ExerciseArgs(StrV("one question on maps"), IntV(1), StrV("Geography"))],
      [name |-> "generate_exercise",
       args |-> ExerciseArgs(StrV("one question on sets"), IntV(2), StrV("Mathematics"))],
      [name |-> "get_weather", args |-> EmptyDict] }

---------------------------------------------------------------------------
(* Tool executors.  An execution ends in one outcome: the value returned   *)
(* or the exception raised, and the external calls it made on the way.     *)

Outcome(raised, value, calls) == [raised |-> raised, value |-> value, calls |-> calls]

\* app/tools/search_knowledge.py: resolve the class's resources, embed the
\* phrase, rank the text chunks, return the formatted context
SearchKnowledgeOutcomes(search_phrase, class_id) ==
    { Outcome(TRUE, "Failed to get class resources: connection lost",
              <<"get_class_resources">>),
      Outcome(TRUE, "Failed to get embedding for query: provider error",
              <<"get_class_resources", "embedding">>),
      Outcome(FALSE, "context for " \o search_phrase \o " in class " \o ToString(class_id),
              <<"get_class_resources", "embedding", "vector_search">>) }

\* generate_exercise after its assert (lines 46-74): embed the query, rank
\* the text chunks of the class's resources, issue one completion call
GenerateExerciseBody(query, class_id, subject) ==
    { Outcome(TRUE, "Failed to get embedding for query: provider error",
              <<"get_class_resources", "embedding">>),
      Outcome(TRUE, "Failed to search for knowledge: connection lost",
              <<"get_class_resources", "embedding", "vector_search">>),
      Outcome(TRUE, "completion failed",
              <<"get_class_resources", "embedding", "vector_search", "completion">>),
      Outcome(FALSE, "> exercise for " \o subject \o ": " \o query,
              <<"get_class_resources", "embedding", "vector_search", "completion">>) }

\* a generate_exercise without its assert on resource_ids
GenerateExerciseNoAssert(query, class_id, subject) ==
    GenerateExerciseBody(query, class_id, subject)

\* app/tools/generate_exercise.py: generate_exercise.  A failed assert raises
\* AssertionError, whose str() is empty.
GenerateExerciseOutcomes(query, class_id, subject) ==
    IF GetClassResources(class_id) = None
    THEN { Outcome(TRUE, "", <<"get_class_resources">>) }
    ELSE GenerateExerciseBody(query, class_id, subject)

---------------------------------------------------------------------------
(* app/ai.py: execute_tool_call.                                           *)

\* an execute_tool_call without its final else branch: a name that is not
\* search_knowledge is dispatched like generate_exercise
ValidateToolCallNoElse(tool_name, tool_args) ==
    IF tool_name \in {"search_knowledge", "generate_exercise"}
    THEN IF tool_name = "search_knowledge"
         THEN IF ~Truthy(Get(tool_args, "search_phrase")) \/ ~IsStr(Get(tool_args, "search_phrase"))
              THEN Some("Error: search_phrase is required and must be a string")
              ELSE IF ~Truthy(Get(tool_args, "class_id")) \/ ~IsInt(Get(tool_args, "class_id"))
              THEN Some("Error: class_id is required and must be an integer")
              ELSE None
         ELSE IF ~Truthy(Get(tool_args, "query")) \/ ~IsStr(Get(tool_args, "query"))
              THEN Some("Error: query is required and must be a string")
              ELSE IF ~Truthy(Get(tool_args, "class_id")) \/ ~IsInt(Get(tool_args, "class_id"))
              THEN Some("Error: class_id is required and must be an integer")
              ELSE IF ~Truthy(Get(tool_args, "subject")) \/ ~IsStr(Get(tool_args, "subject"))
              THEN Some("Error: subject is required and must be a string")
              ELSE None
    ELSE None

\* the checks made before an executor is called: Some(error string) when the
\* call returns without running an executor, None when the executor runs
ValidateToolCall(tool_name, tool_args) ==
    IF tool_name = "search_knowledge"
    THEN IF ~Truthy(Get(tool_args, "search_phrase")) \/ ~IsStr(Get(tool_args, "search_phrase"))
         THEN Some("Error: search_phrase is required and must be a string")
         ELSE IF ~Truthy(Get(tool_args, "class_id")) \/ ~IsInt(Get(tool_args, "class_id"))
         THEN Some("Error: class_id is required and must be an integer")
         ELSE None
    ELSE IF tool_name = "generate_exercise"
    THEN IF ~Truthy(Get(tool_args, "query")) \/ ~IsStr(Get(tool_args, "query"))
         THEN Some("Error: query is required and must be a string")
         ELSE IF ~Truthy(Get(tool_args, "class_id")) \/ ~IsInt(Get(tool_args, "class_id"))
         THEN Some("Error: class_id is required and must be an integer")
         ELSE IF ~Truthy(Get(tool_args, "subject")) \/ ~IsStr(Get(tool_args, "subject"))
         THEN Some("Error: subject is required and must be a string")
         ELSE None
    ELSE Some("Unknown tool: " \o tool_name)

\* the outcomes of the executor execute_tool_call runs for a validated call
ExecutorOutcomes(tool_name, tool_args) ==
    IF tool_name = "search_knowledge"
    THEN SearchKnowledgeOutcomes(Get(tool_args, "search_phrase").s,
                                 Get(tool_args, "class_id").n)
    ELSE GenerateExerciseOutcomes(Get(tool_args, "query").s,
                                  Get(tool_args, "class_id").n,
                                  Get(tool_args, "subject").s)

\* an execute_tool_call whose except clause re-raises
ToolResultReraise(tool_name, outcome) ==
    IF outcome.raised THEN Raised(outcome.value) ELSE Returned(outcome.value)

\* what execute_tool_call hands back for an executor outcome: the value, or
\* the exception caught by `except Exception` as an error string
ToolResult(tool_name, outcome) ==
    IF outcome.raised
    THEN Returned("Error executing " \o tool_name \o ": " \o outcome.value)
    ELSE Returned(outcome.value)

---------------------------------------------------------------------------
(* app/ai.py: create_langchain_tools and the LLM.                          *)

\* create_langchain_tools: one StructuredTool per known tool of the registry;
\* each schema field keeps the type and the description, and no enum
CreateLangchainTools(template, user) ==
    LET r == GetToolsMetadata(template, JsonDumps(user.class_name_to_id_map))
        known == SelectSeq(r.tools,
                    LAMBDA m : m.name \in {"search_knowledge", "generate_exercise"})
    IN  [tools |-> [i \in 1..Len(known) |->
                      [name |-> known[i].name,
                       description |-> known[i].description,
                       args_schema |->
                         [j \in 1..Len(known[i].properties) |->
                            [name |-> known[i].properties[j].name,
                             type |-> IF known[i].properties[j].type = "string"
                                      THEN "str" ELSE "int",
                             description |-> known[i].properties[j].description,
                             enum |-> None]]]],
         template |-> r.template]

\* a request respects the bound schemas: where a schema field carries an
\* enum, the argument is one of its values
Conforms(tools, req) ==
    \A i \in 1..Len(tools) :
        tools[i].name = req.name =>
            \A j \in 1..Len(tools[i].args_schema) :
                LET f == tools[i].args_schema[j]
                IN  (f.enum # None /\ IsInt(Get(req.args, f.name)))
                        => Get(req.args, f.name).n \in Range(f.enum[1])

RECURSIVE SeqsUpTo(_, _)
SeqsUpTo(S, n) ==
    IF n = 0 THEN {<<>>}
    ELSE LET shorter == SeqsUpTo(S, n - 1)
         IN  shorter \cup {Append(q, x) : q \in shorter, x \in S}

\* the contents an LLM response can carry
Contents == {None, Some(""), Some("Photosynthesis is how plants make food.")}

\* the responses of chat_with_tools.invoke: content and no tool call, or a
\* list of tool-call requests
FirstResponses(tools) ==
    [content : Contents, tool_calls : {<<>>}]
    \cup [content : {Some("")},
          tool_calls : SeqsUpTo({r \in ToolRequests : Conforms(tools, r)}, MaxCalls)
                       \ {<<>>}]

\* the ids the LLM gives the tool calls of one response: unique per response
ToolCallId(p, n, i) ==
    "call_" \o ToString(p) \o "_" \o ToString(n) \o "_" \o ToString(i)

\* a tool_calls_data that keeps the first request only
ToolCallsDataFirst(tool_calls) ==
    [i \in 1..1 |->
        [id |-> tool_calls[i].id, type |-> "function",
         name |-> tool_calls[i].name,
         arguments |-> JsonDumps(tool_calls[i].args)]]

\* tool_calls_data: the wire shape of the requests (ai.py 205-212)
ToolCallsData(tool_calls) ==
    [i \in 1..Len(tool_calls) |->
        [id |-> tool_calls[i].id, type |-> "function",
         name |-> tool_calls[i].name,
         arguments |-> JsonDumps(tool_calls[i].args)]]

\* str(response.content) if response.content else ""
ResponseContent(content) ==
    IF content # None /\ content[1] # "" THEN content[1] ELSE ""

---------------------------------------------------------------------------
(* The frame of one generate_response call.                                *)

\* no get_or_create_user call is in progress
IdleLookup ==
    [pc |-> "idle", wa_id |-> "", name |-> None, result |-> None, exc |-> None,
     returns |-> <<>>]

\* the teachers and the classes of the TeacherClass relation; classes 1 and
\* 4 belong to subject 1, class 2 to subject 2
TeacherIds == {1, 2}
ClassIds == {1, 2, 4}
SubjectOfClass(class_id) == IF class_id = 2 THEN 2 ELSE 1

EmptyTeacherClasses == [pair \in TeacherIds \X ClassIds |-> 0]

\* no prompt is being built
NoContextCall ==
    [retrieved_content |-> <<>>, query |-> "", subject |-> "", out |-> None]

\* no direct execute_tool_call call is in progress
NoToolCall ==
    [tool_name |-> "", tool_args |-> EmptyDict, pc |-> "idle", executor |-> FALSE,
     result |-> None, calls |-> <<>>]

NoUser ==
    [wa_id |-> "", id |-> None, name |-> "",
     class_name_to_id_map |-> EmptyDict, formatted_class_info |-> ""]

NoMessage == Message(None, "", None, None, None, None)

IdleFrame ==
    [pc |-> "idle", user |-> NoUser, message |-> NoMessage, history |-> None,
     api_messages |-> <<>>, tool_calls |-> <<>>, tool_calls_data |-> <<>>,
     tool_results |-> <<>>, i |-> 0, response_content |-> "",
     final_message |-> None, result |-> None, exc |-> None,
     start |-> 0, written |-> <<>>, log |-> <<>>, responses |-> <<>>,
     outcomes |-> <<>>]

\* Fields start, written, log, responses and outcomes record what happened
\* and are read by no step: the length of the store when generate_response
\* was called, the rows this call committed, the external calls it made, the
\* contents of the LLM responses, the outcomes of the executors it ran.

\* one entry of the frame's log of external calls: what was called, for which
\* tool call (0: none), with which class id, after how many writes of the turn
Event(kind, i, cls, w) == [kind |-> kind, i |-> i, cls |-> cls, w |-> w]

AllTasks == {1, 2}

\* the user and class tables are empty and nothing outside the loop runs
TablesIdle ==
    /\ user_table = <<>>
    /\ schema = [unique_wa_id |-> TRUE]
    /\ guc = [p \in AllTasks |-> IdleLookup]
    /\ teacher_classes = EmptyTeacherClasses
    /\ atc = [calls |-> 0, last |-> None]
    /\ ctx = NoContextCall

UserTexts == {"explain photosynthesis"}

---------------------------------------------------------------------------
(* app/ai.py: generate_response, one action per step.                      *)

Set(p, f) == t' = [t EXCEPT ![p] = f]

\* db.create_new_message(message) by task p: the row is committed at once
Persist(p, frame, message) ==
    /\ db' = CreateNewMessage(db, message)
    /\ Set(p, [frame EXCEPT !.written = Append(t[p].written, message)])

\* the value generate_response ends with after the final message is saved:
\* the TOOLS branch returns final_message (line 266), the NO_TOOLS branch
\* ends after line 277 without a return statement
ReturnValue(tool_calls, final_message) ==
    IF tool_calls # <<>> THEN Some(final_message) ELSE None

\* a message arrives for user u: the caller saves it (or not) and calls
\* generate_response(user, message)
Receive(p, u, text, saved) ==
    /\ t[p].pc = "idle"
    /\ saved => u.id # None
    /\ LET message == Message(u.id, "user", Some(text), None, None, None)
           rows == IF saved THEN CreateNewMessage(db, message) ELSE db
       IN  /\ db' = rows
           /\ Set(p, [IdleFrame EXCEPT !.pc = "start", !.user = u,
                                       !.message = message, !.start = Len(rows)])
    /\ UNCHANGED <<tools_metadata, reg, fmt, side>>

\* lines 185-186
Enter(p) ==
    /\ t[p].pc = "start"
    /\ IF t[p].user.id = None
       THEN Set(p, [t[p] EXCEPT !.pc = "returned", !.result = None])
       ELSE Set(p, [t[p] EXCEPT !.pc = "fetch"])
    /\ UNCHANGED <<db, tools_metadata, reg, fmt, side>>

\* lines 188-189
FetchAndFormat(p) ==
    /\ t[p].pc = "fetch"
    /\ LET history == GetUserMessageHistory(db, t[p].user.id, HistoryLimit)
           r == FormatMessages(<<t[p].message>>, history, t[p].user)
       IN  IF r.raised # None
           THEN Set(p, [t[p] EXCEPT !.pc = "raised", !.history = history,
                                    !.exc = r.raised])
           ELSE Set(p, [t[p] EXCEPT !.pc = "first_call", !.history = history,
                                    !.api_messages = r.value])
    /\ UNCHANGED <<db, tools_metadata, reg, fmt, side>>

\* lines 192-212: bind the tools, call the LLM, branch on tool_calls
FirstCall(p) ==
    /\ t[p].pc = "first_call"
    /\ LET bound == CreateLangchainTools(tools_metadata, t[p].user)
       IN  /\ tools_metadata' = bound.template
           /\ \E resp \in FirstResponses(bound.tools) :
                LET calls == [i \in 1..Len(resp.tool_calls) |->
                                [id |-> ToolCallId(p, Len(db), i),
                                 name |-> resp.tool_calls[i].name,
                                 args |-> resp.tool_calls[i].args]]
                    log == Append(t[p].log, Event("llm", 1, 0, Len(t[p].written)))
                IN  IF calls # <<>>
                    THEN Set(p, [t[p] EXCEPT !.pc = "save_calls", !.log = log,
                                   !.responses = <<resp.content>>,
                                   !.tool_calls = calls,
                                   !.tool_calls_data = ToolCallsData(calls)])
                    ELSE Set(p, [t[p] EXCEPT !.pc = "save_final", !.log = log,
                                   !.responses = <<resp.content>>,
                                   !.response_content = ResponseContent(resp.content)])
    /\ UNCHANGED <<db, reg, fmt, side>>

\* lines 214-220
SaveCalls(p) ==
    /\ t[p].pc = "save_calls"
    /\ Persist(p, [t[p] EXCEPT !.pc = "exec", !.i = 1],
               Message(t[p].user.id, "assistant", None,
                       Some(t[p].tool_calls_data), None, None))
    /\ UNCHANGED <<tools_metadata, reg, fmt, side>>

\* line 225, execute_tool_call up to the call of the executor
ToolStart(p) ==
    /\ t[p].pc = "exec"
    /\ LET call == t[p].tool_calls[t[p].i]
           v == ValidateToolCall(call.name, call.args)
       IN  IF v # None
           THEN Set(p, [t[p] EXCEPT !.pc = "save_tool",
                          !.tool_results = Append(t[p].tool_results, v[1])])
           ELSE Set(p, [t[p] EXCEPT !.pc = "in_tool",
                          !.log = Append(t[p].log,
                                    Event("exec:" \o call.name, t[p].i,
                                          Get(call.args, "class_id").n,
                                          Len(t[p].written)))])
    /\ UNCHANGED <<db, tools_metadata, reg, fmt, side>>

RECURSIVE Events(_, _, _, _)
Events(calls, i, cls, w) ==
    IF calls = <<>> THEN <<>>
    ELSE <<Event(calls[1], i, cls, w)>> \o Events(Tail(calls), i, cls, w)

\* lines 225-226: the executor runs to its outcome, execute_tool_call returns
ToolFinish(p) ==
    /\ t[p].pc = "in_tool"
    /\ LET call == t[p].tool_calls[t[p].i]
       IN  \E o \in ExecutorOutcomes(call.name, call.args) :
             LET r == ToolResult(call.name, o)
                 log == t[p].log \o Events(o.calls, t[p].i,
                                           Get(call.args, "class_id").n,
                                           Len(t[p].written))
                 outcomes == Append(t[p].outcomes, [i |-> t[p].i, outcome |-> o])
             IN  IF r.raised # None
                 THEN Set(p, [t[p] EXCEPT !.pc = "raised", !.log = log,
                                !.outcomes = outcomes, !.exc = r.raised])
                 ELSE Set(p, [t[p] EXCEPT !.pc = "save_tool", !.log = log,
                                !.outcomes = outcomes,
                                !.tool_results = Append(t[p].tool_results, r.value)])
    /\ UNCHANGED <<db, tools_metadata, reg, fmt, side>>

\* lines 229-236, and the loop's next iteration or exit
SaveTool(p) ==
    /\ t[p].pc = "save_tool"
    /\ LET call == t[p].tool_calls[t[p].i]
       IN  Persist(p, [t[p] EXCEPT
                         !.pc = IF t[p].i < Len(t[p].tool_calls)
                                THEN "exec" ELSE "second_call",
                         !.i = t[p].i + 1],
                   Message(t[p].user.id, "tool", Some(t[p].tool_results[t[p].i]),
                           None, Some(call.id), Some(call.name)))
    /\ UNCHANGED <<tools_metadata, reg, fmt, side>>

\* a replay that pairs each call with the result of the call after it
ReplayToolsShifted(tool_calls, tool_calls_data, tool_results) ==
    <<ApiMessage("assistant", None, Some(tool_calls_data), None, None)>>
    \o [i \in 1..Len(tool_calls) |->
          ApiMessage("tool",
                     Some(tool_results[IF i < Len(tool_calls) THEN i + 1 ELSE 1]),
                     None, Some(tool_calls[i].id), Some(tool_calls[i].name))]

\* lines 239-252: what the loop appends to api_messages for the second call
ReplayTools(tool_calls, tool_calls_data, tool_results) ==
    <<ApiMessage("assistant", None, Some(tool_calls_data), None, None)>>
    \o [i \in 1..Len(tool_calls) |->
          ApiMessage("tool", Some(tool_results[i]), None,
                     Some(tool_calls[i].id), Some(tool_calls[i].name))]

\* lines 239-256: extend api_messages, call the LLM without tools
SecondCall(p) ==
    /\ t[p].pc = "second_call"
    /\ \E content \in Contents :
         Set(p, [t[p] EXCEPT
                   !.pc = "save_final",
                   !.api_messages = t[p].api_messages
                        \o ReplayTools(t[p].tool_calls, t[p].tool_calls_data,
                                       t[p].tool_results),
                   !.log = Append(t[p].log, Event("llm", 2, 0, Len(t[p].written))),
                   !.responses = Append(t[p].responses, content),
                   !.response_content = ResponseContent(content)])
    /\ UNCHANGED <<db, tools_metadata, reg, fmt, side>>

\* lines 259-266 and 272-277
SaveFinal(p) ==
    /\ t[p].pc = "save_final"
    /\ LET final_message == Message(t[p].user.id, "assistant",
                                    Some(t[p].response_content), None, None, None)
       IN  Persist(p, [t[p] EXCEPT
                         !.pc = "returned",
                         !.final_message = Some(final_message),
                         !.result = ReturnValue(t[p].tool_calls, final_message)],
                   final_message)
    /\ UNCHANGED <<tools_metadata, reg, fmt, side>>

\* the exception each external call of generate_response can raise
FailureAt(pc) ==
    CASE pc = "fetch" -> "Failed to retrieve message history: connection lost"
      [] pc = "first_call" -> "LLM provider error"
      [] pc = "second_call" -> "LLM provider error"
      [] OTHER -> "Failed to create message: connection lost"

\* a generate_response that catches the exception and answers with an empty
\* final message
FailSwallowed(p) ==
    /\ t[p].pc \in {"fetch", "first_call", "save_calls", "save_tool",
                    "second_call", "save_final"}
    /\ t[p].exc = None
    /\ Set(p, [t[p] EXCEPT !.pc = "save_final", !.response_content = "",
                           !.exc = Some(FailureAt(t[p].pc))])
    /\ tools_metadata' = tools_metadata
    /\ UNCHANGED <<db, reg, fmt, side>>

\* a history read, an LLM call or a message write raises: nothing is caught
\* in generate_response, the exception leaves it
Fail(p) ==
    /\ t[p].pc \in {"fetch", "first_call", "save_calls", "save_tool",
                    "second_call", "save_final"}
    /\ Set(p, [t[p] EXCEPT !.pc = "raised", !.exc = Some(FailureAt(t[p].pc))])
    /\ tools_metadata' =
         IF t[p].pc = "first_call"
         THEN CreateLangchainTools(tools_metadata, t[p].user).template
         ELSE tools_metadata
    /\ UNCHANGED <<db, reg, fmt, side>>

---------------------------------------------------------------------------
(* The specification of one turn: task 1 receives one message.             *)

\* the store before the turn: empty, or holding an earlier turn of Asha
\* (her message and the assistant's answer)
InitialStores ==
    { <<>>,
      << Message(Asha.id, "user", Some("what is a map scale?"), None, None, None),
         Message(Asha.id, "assistant", Some("A map scale is a ratio."), None, None, None) >> }

Init ==
    /\ db \in InitialStores
    /\ tools_metadata = ToolsMetadataTemplate
    /\ t = [p \in AllTasks |-> IdleFrame]
    /\ reg = <<>>
    /\ fmt = [new_messages |-> <<>>, database_messages |-> None, user |-> NoUser,
              out |-> None]
    /\ xtc = NoToolCall
    /\ TablesIdle

Step(p) ==
    \/ \E u \in Users, text \in UserTexts, saved \in BOOLEAN : Receive(p, u, text, saved)
    \/ Enter(p)
    \/ FetchAndFormat(p)
    \/ FirstCall(p)
    \/ SaveCalls(p)
    \/ ToolStart(p)
    \/ ToolFinish(p)
    \/ SaveTool(p)
    \/ SecondCall(p)
    \/ SaveFinal(p)
    \/ Fail(p)

Next == Step(1)

Spec == Init /\ [][Next]_vars

---------------------------------------------------------------------------
(* Two turns of the same user, interleaved at every step: each task's      *)
(* incoming message is saved by the caller before generate_response is     *)
(* called, hence before that turn fetches the history.  A turn that fails  *)
(* stops where it is, which to the other turn is a turn that has not taken *)
(* its next step, so the failure step adds no interleaving and is left out.*)

\* the text each task's incoming message carries
InterleavedTexts == <<"explain photosynthesis", "and respiration?">>

StepInterleaved(p) ==
    \/ Receive(p, Asha, InterleavedTexts[p], TRUE)
    \/ Enter(p)
    \/ FetchAndFormat(p)
    \/ FirstCall(p)
    \/ SaveCalls(p)
    \/ ToolStart(p)
    \/ ToolFinish(p)
    \/ SaveTool(p)
    \/ SecondCall(p)
    \/ SaveFinal(p)

NextInterleaved ==
    \E p \in AllTasks :
        /\ StepInterleaved(p)
        /\ Len(t'[p].tool_calls) <= MaxInterleavedCalls

InitInterleaved ==
    /\ db = <<>>
    /\ tools_metadata = ToolsMetadataTemplate
    /\ t = [p \in AllTasks |-> IdleFrame]
    /\ reg = <<>>
    /\ fmt = [new_messages |-> <<>>, database_messages |-> None, user |-> NoUser,
              out |-> None]
    /\ xtc = NoToolCall
    /\ TablesIdle

SpecInterleaved == InitInterleaved /\ [][NextInterleaved]_vars

---------------------------------------------------------------------------
(* One turn of a user whose store holds earlier completed turns, with and  *)
(* without tool calls: the history read sees the most recent rows only.    *)

\* the rows a completed turn of Asha left in the store: her message, then
\* (for n > 0 tool calls) the assistant tool-call message and the n tool
\* messages, then the final assistant message
PriorTurn(n, k) ==
    LET calls == [i \in 1..n |->
                    [id |-> ToolCallId(0, k, i), name |-> "search_knowledge",
                     args |-> SearchArgs(StrV("mitosis"), IntV(1))]]
    IN  <<Message(Asha.id, "user", Some("what is a map scale?"), None, None, None)>>
        \o (IF n = 0 THEN <<>>
            ELSE <<Message(Asha.id, "assistant", None, Some(ToolCallsData(calls)),
                           None, None)>>
                 \o [i \in 1..n |->
                       Message(Asha.id, "tool", Some("context for mitosis in class 1"),
                               None, Some(calls[i].id), Some(calls[i].name))])
        \o <<Message(Asha.id, "assistant", Some("A map scale is a ratio."),
                     None, None, None)>>

\* the store after the turns whose numbers of tool calls are given
RECURSIVE StoreAfter(_)
StoreAfter(shapes) ==
    IF shapes = <<>> THEN <<>>
    ELSE StoreAfter(SubSeq(shapes, 1, Len(shapes) - 1))
         \o PriorTurn(shapes[Len(shapes)], Len(shapes))

InitWindow ==
    /\ db \in {StoreAfter(shapes) : shapes \in SeqsUpTo(0..MaxCalls, MaxPriorTurns)}
    /\ tools_metadata = ToolsMetadataTemplate
    /\ t = [p \in AllTasks |-> IdleFrame]
    /\ reg = <<>>
    /\ fmt = [new_messages |-> <<>>, database_messages |-> None, user |-> NoUser,
              out |-> None]
    /\ xtc = NoToolCall
    /\ TablesIdle

NextWindow ==
    \/ \E text \in UserTexts, saved \in BOOLEAN : Receive(1, Asha, text, saved)
    \/ Enter(1)
    \/ FetchAndFormat(1)
    \/ FirstCall(1)
    \/ SaveCalls(1)
    \/ ToolStart(1)
    \/ ToolFinish(1)
    \/ SaveTool(1)
    \/ SecondCall(1)
    \/ SaveFinal(1)
    \/ Fail(1)

SpecWindow == InitWindow /\ [][NextWindow]_vars

---------------------------------------------------------------------------
(* Direct calls of get_tools_metadata, for any sequence of users.          *)

RegCall(u) ==
    /\ Len(reg) < MaxRegCalls
    /\ LET r == GetToolsMetadata(tools_metadata, JsonDumps(u.class_name_to_id_map))
       IN  /\ reg' = Append(reg, [user |-> u, tools |-> r.tools])
           /\ tools_metadata' = r.template
    /\ UNCHANGED <<db, t, fmt, side>>

InitRegistry ==
    /\ db = <<>>
    /\ tools_metadata = ToolsMetadataTemplate
    /\ t = [p \in AllTasks |-> IdleFrame]
    /\ reg = <<>>
    /\ fmt = [new_messages |-> <<>>, database_messages |-> None, user |-> NoUser,
              out |-> None]
    /\ xtc = NoToolCall
    /\ TablesIdle

NextRegistry == \E u \in Users : RegCall(u)

SpecRegistry == InitRegistry /\ [][NextRegistry]_vars

---------------------------------------------------------------------------
(* Direct calls of _format_messages, for any history and any list of new   *)
(* messages within the bounds.                                             *)

\* rows a history can hold
HistorySamples ==
    { Message(Asha.id, "user", Some("what is a map scale?"), None, None, None),
      Message(Asha.id, "assistant", Some("A map scale is a ratio."), None, None, None),
      Message(Asha.id, "tool", Some("context for maps in class 1"), None,
              Some("call_1_0_1"), Some("search_knowledge")) }

\* messages that can arrive
NewSamples ==
    { Message(Asha.id, "user", Some("explain photosynthesis"), None, None, None),
      Message(Asha.id, "user", Some("and respiration?"), None, None, None) }

FormatCall ==
    /\ fmt.out = None
    /\ fmt' = [fmt EXCEPT !.out =
                 Some(FormatMessages(fmt.new_messages, fmt.database_messages, fmt.user))]
    /\ UNCHANGED <<db, tools_metadata, t, reg, side>>

InitFormat ==
    /\ db = <<>>
    /\ tools_metadata = ToolsMetadataTemplate
    /\ t = [p \in AllTasks |-> IdleFrame]
    /\ reg = <<>>
    /\ fmt \in [new_messages : SeqsUpTo(NewSamples, MaxNew),
                database_messages :
                    {None} \cup {Some(h) : h \in SeqsUpTo(HistorySamples, MaxHist)},
                user : {Asha},
                out : {None}]
    /\ xtc = NoToolCall
    /\ TablesIdle

NextFormat == FormatCall

SpecFormat == InitFormat /\ [][NextFormat]_vars

---------------------------------------------------------------------------
(* Direct calls of execute_tool_call, for any tool name and any argument   *)
(* object an LLM tool call can carry.                                      *)

\* the values an argument can have; NoneV stands for a member that is absent
ArgSamples ==
    {NoneV, StrV(""), StrV("mitosis"), IntV(0), IntV(1), BoolV(TRUE)}

\* the argument dict with the members of `names` that `f` gives a value
ToolArgs(names, f) ==
    Dict(SelectSeq(names, LAMBDA k : f[k] # NoneV),
         [k \in {n \in Range(names) : f[n] # NoneV} |-> f[k]])

ToolCallSamples ==
    { [tool_name |-> "search_knowledge",
       tool_args |-> ToolArgs(<<"search_phrase", "class_id">>, f)] :
         f \in [{"search_phrase", "class_id"} -> ArgSamples] }
    \cup
    { [tool_name |-> "generate_exercise",
       tool_args |-> ToolArgs(<<"query", "class_id", "subject">>, f)] :
         f \in [{"query", "class_id", "subject"} -> ArgSamples] }
    \cup
    { [tool_name |-> "get_weather", tool_args |-> ToolArgs(<<"city">>, f)] :
         f \in [{"city"} -> {NoneV, StrV("mitosis")}] }

\* lines 149-175: the checks; the call returns, or the executor is entered
ExecuteToolCallStart ==
    /\ xtc.pc = "called"
    /\ LET v == ValidateToolCall(xtc.tool_name, xtc.tool_args)
       IN  IF v # None
           THEN xtc' = [xtc EXCEPT !.pc = "returned", !.result = v]
           ELSE xtc' = [xtc EXCEPT !.pc = "in_tool", !.executor = TRUE]
    /\ UNCHANGED <<core, user_table, schema, guc, teacher_classes, atc, ctx>>

\* lines 158-177: the executor runs to its outcome
ExecuteToolCallFinish ==
    /\ xtc.pc = "in_tool"
    /\ \E o \in ExecutorOutcomes(xtc.tool_name, xtc.tool_args) :
         LET r == ToolResult(xtc.tool_name, o)
         IN  xtc' = [xtc EXCEPT !.pc = IF r.raised # None THEN "raised" ELSE "returned",
                                !.result = IF r.raised # None THEN r.raised
                                           ELSE Some(r.value),
                                !.calls = o.calls]
    /\ UNCHANGED <<core, user_table, schema, guc, teacher_classes, atc, ctx>>

InitTool ==
    /\ db = <<>>
    /\ tools_metadata = ToolsMetadataTemplate
    /\ t = [p \in AllTasks |-> IdleFrame]
    /\ reg = <<>>
    /\ fmt = [new_messages |-> <<>>, database_messages |-> None, user |-> NoUser,
              out |-> None]
    /\ \E c \in ToolCallSamples :
         xtc = [NoToolCall EXCEPT !.tool_name = c.tool_name,
                                  !.tool_args = c.tool_args, !.pc = "called"]
    /\ TablesIdle

NextTool == ExecuteToolCallStart \/ ExecuteToolCallFinish

SpecTool == InitTool /\ [][NextTool]_vars

---------------------------------------------------------------------------
(* app/database/db.py: get_or_create_user.  Every call is one transaction  *)
(* of its own session; two calls interleave between their statements.      *)

WaIds == {"255-1", "255-7"}

\* User(name=name, wa_id=wa_id, state="new", role="teacher") with the id the
\* insert gives it
UserRow(id, wa_id, name) ==
    [id |-> id, wa_id |-> wa_id, name |-> name, state |-> "new", role |-> "teacher"]

\* select(User).where(User.wa_id == wa_id)
RowsWithWaId(rows, wa_id) == SelectSeq(rows, LAMBDA u : u.wa_id = wa_id)

\* how a finished call is recorded in the frame
LookupReturn(f, result, exc) ==
    [f EXCEPT !.pc = IF exc = None THEN "returned" ELSE "raised",
              !.result = result, !.exc = exc,
              !.returns = Append(f.returns,
                                 [wa_id |-> f.wa_id, user |-> result, exc |-> exc])]

\* a caller calls get_or_create_user(wa_id, name)
LookupCall(p, wa_id, name) ==
    /\ guc[p].pc \in {"idle", "returned", "raised"}
    /\ Len(guc[p].returns) < MaxUserCalls
    /\ guc' = [guc EXCEPT ![p] = [@ EXCEPT !.pc = "select", !.wa_id = wa_id,
                                           !.name = name, !.result = None,
                                           !.exc = None]]
    /\ UNCHANGED <<core, xtc, user_table, schema, teacher_classes, atc, ctx>>

\* lines 160-177: SELECT ... FOR UPDATE and one_or_none().  A row that is
\* found is locked until the session closes at the return, so finding and
\* returning it is one step; when no row matches, nothing is locked.
LookupSelect(p) ==
    /\ guc[p].pc = "select"
    /\ LET found == RowsWithWaId(user_table, guc[p].wa_id)
       IN  guc' = [guc EXCEPT ![p] =
                IF Len(found) > 1
                THEN LookupReturn(@, None,
                        Some("Failed to get or create user: Multiple rows were found when one or none was required"))
                ELSE IF Len(found) = 1
                THEN LookupReturn(@, Some(found[1]), None)
                ELSE [@ EXCEPT !.pc = "create"]]
    /\ UNCHANGED <<core, xtc, user_table, schema, teacher_classes, atc, ctx>>

\* lines 179-191: add, flush, commit, refresh.  With a unique wa_id column
\* the insert of a second row fails and the exception is re-raised.
LookupCreate(p) ==
    /\ guc[p].pc = "create"
    /\ IF schema.unique_wa_id /\ RowsWithWaId(user_table, guc[p].wa_id) # <<>>
       THEN /\ user_table' = user_table
            /\ guc' = [guc EXCEPT ![p] =
                 LookupReturn(@, None,
                    Some("Failed to get or create user: duplicate key value violates unique constraint"))]
       ELSE LET new_user == UserRow(Len(user_table) + 1, guc[p].wa_id, guc[p].name)
            IN  /\ user_table' = Append(user_table, new_user)
                /\ guc' = [guc EXCEPT ![p] = LookupReturn(@, Some(new_user), None)]
    /\ UNCHANGED <<core, xtc, schema, teacher_classes, atc, ctx>>

InitUsers ==
    /\ db = <<>>
    /\ tools_metadata = ToolsMetadataTemplate
    /\ t = [p \in AllTasks |-> IdleFrame]
    /\ reg = <<>>
    /\ fmt = [new_messages |-> <<>>, database_messages |-> None, user |-> NoUser,
              out |-> None]
    /\ xtc = NoToolCall
    /\ user_table \in {<<>>, <<UserRow(1, "255-1", Some("Asha"))>>}
    /\ schema \in [unique_wa_id : BOOLEAN]
    /\ guc = [p \in AllTasks |-> IdleLookup]
    /\ teacher_classes = EmptyTeacherClasses
    /\ atc = [calls |-> 0, last |-> None]
    /\ ctx = NoContextCall

NextUsers ==
    \E p \in AllTasks :
        \/ \E wa_id \in WaIds : LookupCall(p, wa_id, Some("Rehema"))
        \/ LookupSelect(p)
        \/ LookupCreate(p)

SpecUsers == InitUsers /\ [][NextUsers]_vars

---------------------------------------------------------------------------
(* app/database/db.py: assign_teacher_to_classes.  One call is one         *)
(* transaction: it commits the delete and the inserts together, or, when   *)
(* a statement fails, the session closes without a commit.                 *)

\* lines 84-100: delete the teacher's rows, all of them or those whose class
\* belongs to subject_id
DeleteTeacherClasses(rows, teacher_id, subject_id) ==
    [pair \in DOMAIN rows |->
        IF /\ pair[1] = teacher_id
           /\ (subject_id = None \/ SubjectOfClass(pair[2]) = subject_id[1])
        THEN 0 ELSE rows[pair]]

\* the number of entries of class_ids equal to class_id
Occurrences(class_ids, class_id) ==
    Cardinality({k \in 1..Len(class_ids) : class_ids[k] = class_id})

\* a TeacherClass table without the (teacher, class) uniqueness
InsertTeacherClassesUnchecked(rows, teacher_id, class_ids) ==
    Returned([pair \in DOMAIN rows |->
                 IF pair[1] = teacher_id
                 THEN rows[pair] + Occurrences(class_ids, pair[2])
                 ELSE rows[pair]])

\* line 108, insert(TeacherClass) of one row per entry of class_ids: the
\* table admits one row per (teacher, class), a second one fails the insert
InsertTeacherClasses(rows, teacher_id, class_ids) ==
    IF \E c \in ClassIds : rows[<<teacher_id, c>>] + Occurrences(class_ids, c) > 1
    THEN Raised("duplicate key value violates unique constraint")
    ELSE Returned([pair \in DOMAIN rows |->
                     IF pair[1] = teacher_id
                     THEN rows[pair] + Occurrences(class_ids, pair[2])
                     ELSE rows[pair]])

\* lines 81-119
AssignTeacherToClasses(user, class_ids, subject_id) ==
    /\ atc.calls < MaxAssignCalls
    /\ LET deleted == DeleteTeacherClasses(teacher_classes, user.id[1], subject_id)
           r == IF class_ids # <<>>
                THEN InsertTeacherClasses(deleted, user.id[1], class_ids)
                ELSE Returned(deleted)
           call == [user |-> user, class_ids |-> class_ids, subject_id |-> subject_id,
                    before |-> teacher_classes]
       IN  IF r.raised # None
           THEN /\ teacher_classes' = teacher_classes
                /\ atc' = [calls |-> atc.calls + 1,
                           last |-> Some([call |-> call,
                                          exc |-> Some("Failed to assign teacher to classes: "
                                                       \o r.raised[1])])]
           ELSE /\ teacher_classes' = r.value
                /\ atc' = [calls |-> atc.calls + 1,
                           last |-> Some([call |-> call, exc |-> None])]
    /\ UNCHANGED <<core, xtc, user_table, schema, guc, ctx>>

InitClasses ==
    /\ db = <<>>
    /\ tools_metadata = ToolsMetadataTemplate
    /\ t = [p \in AllTasks |-> IdleFrame]
    /\ reg = <<>>
    /\ fmt = [new_messages |-> <<>>, database_messages |-> None, user |-> NoUser,
              out |-> None]
    /\ xtc = NoToolCall
    /\ TablesIdle

NextClasses ==
    \E user \in {Asha, Baraka}, class_ids \in SeqsUpTo(ClassIds, MaxClassIds),
       subject_id \in {None, Some(1), Some(2)} :
        AssignTeacherToClasses(user, class_ids, subject_id)

SpecClasses == InitClasses /\ [][NextClasses]_vars

---------------------------------------------------------------------------
(* app/tools/generate_exercise.py: _format_context and the prompt that     *)
(* generate_exercise builds from the chunks of the vector search.          *)

\* n_results of the vector search (line 48)
ContextSize == 7

Chunk(chunk_type, resource_id, title, index, content) ==
    [chunk_type |-> chunk_type, resource_id |-> resource_id,
     top_level_section_title |-> title, top_level_section_index |-> index,
     content |-> content]

\* truthiness of an Optional str and of an Optional list
TruthyStr(x) == x # None /\ x[1] # ""
TruthyList(x) == x # None /\ x[1] # <<>>

\* "\n".join(parts)
RECURSIVE JoinLines(_)
JoinLines(parts) ==
    IF parts = <<>> THEN ""
    ELSE IF Len(parts) = 1 THEN parts[1]
    ELSE parts[1] \o "\n" \o JoinLines(Tail(parts))

\* lines 101-106
Heading(chunk) ==
    IF TruthyStr(chunk.top_level_section_title) /\ TruthyStr(chunk.top_level_section_index)
    THEN "-" \o chunk.chunk_type \o " from chapter " \o chunk.top_level_section_index[1]
         \o ". " \o chunk.top_level_section_title[1] \o " in resource "
         \o ToString(chunk.resource_id)
    ELSE IF TruthyStr(chunk.top_level_section_title)
    THEN "-" \o chunk.chunk_type \o " from section " \o chunk.top_level_section_title[1]
         \o " in resource " \o ToString(chunk.resource_id)
    ELSE "-" \o chunk.chunk_type \o " from resource " \o ToString(chunk.resource_id)

\* lines 108-109 for every chunk of the list
RECURSIVE ChunkParts(_)
ChunkParts(chunks) ==
    IF chunks = <<>> THEN <<>>
    ELSE <<Heading(chunks[1]), chunks[1].content>> \o ChunkParts(Tail(chunks))

\* lines 84-96
RECURSIVE ResourceTitles(_)
ResourceTitles(resources) ==
    IF resources = <<>> THEN ""
    ELSE ToString(resources[1].id) \o ". " \o resources[1].name
         \o (IF Len(resources) = 1 THEN "" ELSE ", " \o ResourceTitles(Tail(resources)))

\* _format_context(retrieved_content, retrieved_exercise=None, resources=None)
FormatContext(retrieved_content, retrieved_exercise, resources) ==
    LET header ==
            IF TruthyList(resources)
            THEN IF Len(resources[1]) = 1
                 THEN <<"### Context from the resource (" \o resources[1][1].name \o ")\n">>
                 ELSE <<"### Context from the resources ("
                        \o ResourceTitles(resources[1]) \o ")\n">>
            ELSE <<>>
        chunks ==
            IF TruthyList(retrieved_exercise)
            THEN ChunkParts(retrieved_content \o retrieved_exercise[1])
            ELSE <<>>
    IN  JoinLines(header \o chunks)

\* exercise_generator_prompt.format(class_info=subject)
ExerciseGeneratorPrompt(class_info) ==
    "You are a skilled Tanzanian secondary school teacher ... This exercise is for "
        \o class_info \o " students. ..."

\* exercise_user_prompt.format(query=query, context_str=context)
ExerciseUserPrompt(query, context_str) ==
    "\nFollow these instructions (" \o query \o ")\n\nContext information is below:\n\n"
        \o context_str \o "\n\n"

\* the chunks a vector search can return
ChunkSamples ==
    { Chunk("text", 10, Some("Maps"), Some("2"), "A map scale is a ratio."),
      Chunk("text", 11, Some("Weather"), None, "Rainfall is measured in millimetres."),
      Chunk("text", 10, None, Some("3"), "Contour lines join points of equal height."),
      Chunk("text", 11, None, None, "Tanzania exports gold.") }

\* generate_exercise lines 56-67: format the context, build the two messages
BuildPrompt ==
    /\ ctx.out = None
    /\ LET context == FormatContext(ctx.retrieved_content, None, None)
       IN  ctx' = [ctx EXCEPT !.out =
                     Some([context |-> context,
                           messages |->
                             << [role |-> "system",
                                 content |-> ExerciseGeneratorPrompt(ctx.subject)],
                                [role |-> "user",
                                 content |-> ExerciseUserPrompt(ctx.query, context)] >>])]
    /\ UNCHANGED <<core, xtc, user_table, schema, guc, teacher_classes, atc>>

InitContext ==
    /\ db = <<>>
    /\ tools_metadata = ToolsMetadataTemplate
    /\ t = [p \in AllTasks |-> IdleFrame]
    /\ reg = <<>>
    /\ fmt = [new_messages |-> <<>>, database_messages |-> None, user |-> NoUser,
              out |-> None]
    /\ xtc = NoToolCall
    /\ user_table = <<>>
    /\ schema = [unique_wa_id |-> TRUE]
    /\ guc = [p \in AllTasks |-> IdleLookup]
    /\ teacher_classes = EmptyTeacherClasses
    /\ atc = [calls |-> 0, last |-> None]
    /\ ctx \in [retrieved_content : SeqsUpTo(ChunkSamples, MaxChunks),
                query : {"one question on maps"},
                subject : {"Geography"},
                out : {None}]
    /\ MaxChunks <= ContextSize

NextContext == BuildPrompt

SpecContext == InitContext /\ [][NextContext]_vars

---------------------------------------------------------------------------
(* Properties.                                                             *)

\* the rows committed since task p's generate_response was called
Appended(p) == SubSeq(db, t[p].start + 1, Len(db))

\* the text of an LLM response's content, "" when it is empty or absent
TextOf(content) == IF content = None THEN "" ELSE content[1]

\* the log entries of task p of one of the given kinds
EventsOf(p, kinds) == {k \in 1..Len(t[p].log) : t[p].log[k].kind \in kinds}

ExecKinds == {"exec:search_knowledge", "exec:generate_exercise"}

\* C1: a turn that runs to completion returns the final assistant message
\* it persisted, on the NO_TOOLS and on the TOOLS branch; the result is null
\* if and only if the user has no id, and then nothing was read, called or
\* written.
C1_ReturnsFinalMessage ==
    \A p \in AllTasks :
        t[p].pc = "returned" =>
            /\ (t[p].result = None) <=> (t[p].user.id = None)
            /\ t[p].user.id = None =>
                   /\ t[p].log = <<>>
                   /\ Appended(p) = <<>>
                   /\ t[p].history = None
            /\ t[p].user.id # None =>
                   /\ t[p].final_message # None
                   /\ t[p].result = t[p].final_message
                   /\ db[Len(db)] = t[p].final_message[1]

\* C4: the rows a completed turn appends are exactly one assistant message
\* with the returned content when the first response has no tool calls;
\* otherwise one assistant message with null content carrying all n tool
\* calls, then n tool messages tagged with their call's id and name, all
\* committed before the second LLM call, then one final assistant message.
C4_TurnAppendsExactly ==
    \A p \in AllTasks :
        (t[p].pc = "returned" /\ t[p].user.id # None) =>
            LET a == Appended(p)
                calls == t[p].tool_calls
                n == Len(calls)
                uid == t[p].user.id
            IN  IF n = 0
                THEN a = << Message(uid, "assistant", Some(TextOf(t[p].responses[1])),
                                    None, None, None) >>
                ELSE /\ Len(a) = n + 2
                     /\ a[1].role = "assistant" /\ a[1].user_id = uid
                     /\ a[1].content = None
                     /\ a[1].tool_calls # None
                     /\ Len(a[1].tool_calls[1]) = n
                     /\ \A i \in 1..n :
                          /\ a[1].tool_calls[1][i].id = calls[i].id
                          /\ a[1].tool_calls[1][i].name = calls[i].name
                          /\ a[1].tool_calls[1][i].type = "function"
                          /\ a[i + 1].role = "tool" /\ a[i + 1].user_id = uid
                          /\ a[i + 1].tool_call_id = Some(calls[i].id)
                          /\ a[i + 1].tool_name = Some(calls[i].name)
                          /\ a[i + 1].tool_calls = None
                     /\ a[n + 2] = Message(uid, "assistant",
                                           Some(TextOf(t[p].responses[2])),
                                           None, None, None)
                     /\ \A k \in EventsOf(p, {"llm"}) :
                          t[p].log[k].i = 2 => t[p].log[k].w = n + 1
                     /\ Cardinality({k \in EventsOf(p, {"llm"}) : t[p].log[k].i = 2}) = 1

C4_Witness ==
    /\ t[1].pc = "returned"
    /\ Len(t[1].tool_calls) = 2
    /\ t[1].start > 0

C6_ToolsInOrder ==
    \A p \in AllTasks :
        LET log == t[p].log
            calls == t[p].tool_calls
            n == Len(calls)
            api == t[p].api_messages
            base == Len(api) - n - 1
            a == Appended(p)
        IN  /\ \A k \in EventsOf(p, ExecKinds) :
                 /\ log[k].w = log[k].i
                 /\ \A j \in EventsOf(p, ExecKinds) : j < k => log[j].i < log[k].i
            /\ (t[p].pc \in {"save_final", "returned"} /\ n > 0) =>
                 /\ base >= 1
                 /\ api[base + 1] = ApiMessage("assistant", None,
                                               Some(t[p].tool_calls_data), None, None)
                 /\ \A i \in 1..n :
                      /\ api[base + 1 + i].role = "tool"
                      /\ api[base + 1 + i].tool_call_id = Some(calls[i].id)
                      /\ api[base + 1 + i].name = Some(calls[i].name)
                      /\ api[base + 1 + i].content = a[i + 1].content
                      /\ a[i + 1].tool_call_id = Some(calls[i].id)
                 /\ \A k \in 1..Len(t[p].outcomes) :
                      LET o == t[p].outcomes[k]
                      IN  ~o.outcome.raised =>
                            api[base + 1 + o.i].content = Some(o.outcome.value)

C6_Witness ==
    /\ t[1].pc = "returned"
    /\ Len(t[1].outcomes) = 2
    /\ ~t[1].outcomes[1].outcome.raised
    /\ ~t[1].outcomes[2].outcome.raised
    /\ t[1].outcomes[1].outcome.value # t[1].outcomes[2].outcome.value

\* the tool calls of task p that are well-formed generate_exercise requests
\* for a class without resources
ZeroResourceCalls(p) ==
    {i \in 1..Len(t[p].tool_calls) :
        LET call == t[p].tool_calls[i]
        IN  /\ call.name = "generate_exercise"
            /\ ValidateToolCall(call.name, call.args) = None
            /\ GetClassResources(Get(call.args, "class_id").n) = None}

\* the tool calls of task p whose executor has run to its outcome
Executed(p) == {t[p].outcomes[k].i : k \in 1..Len(t[p].outcomes)}

\* C7 as stated: once generate_exercise has run for a class with zero
\* resources, no completion call was issued for it and the turn makes no
\* second LLM call and persists no final assistant message.
C7_ConfigErrorAbortsTurn ==
    \A p \in AllTasks :
        \A i \in ZeroResourceCalls(p) \cap Executed(p) :
            /\ \A k \in EventsOf(p, {"completion"}) : t[p].log[k].i # i
            /\ \A k \in EventsOf(p, {"llm"}) : t[p].log[k].i # 2
            /\ t[p].final_message = None

\* C7, amended: once generate_exercise has run for a class with zero
\* resources, it made no embedding, search or completion call, and
\* execute_tool_call returned the string "Error executing generate_exercise: "
\* (no exercise text), which is the content of that call's tool message; the
\* turn is not aborted by it: the AssertionError is never the exception that
\* leaves generate_response.
C7_ConfigErrorIsReported ==
    \A p \in AllTasks :
        \A i \in ZeroResourceCalls(p) \cap Executed(p) :
            /\ \A k \in EventsOf(p, {"embedding", "vector_search", "completion"}) :
                   t[p].log[k].i # i
            /\ Len(t[p].tool_results) >= i
            /\ t[p].tool_results[i] = "Error executing generate_exercise: "
            /\ Len(Appended(p)) > i =>
                   Appended(p)[i + 1].content = Some("Error executing generate_exercise: ")
            /\ t[p].exc # Some("")

C7_Witness ==
    /\ t[1].pc = "returned"
    /\ ZeroResourceCalls(1) # {}
    /\ t[1].final_message # None
    /\ \E k \in EventsOf(1, {"llm"}) : t[1].log[k].i = 2

\* C8: an exception raised by a tool executor is returned by
\* execute_tool_call as the string "Error executing <tool>: <exception>",
\* which becomes that call's tool message; it is never the exception that
\* leaves generate_response.
C8_ToolExceptionsBecomeStrings ==
    \A p \in AllTasks :
        \A k \in 1..Len(t[p].outcomes) :
            LET o == t[p].outcomes[k]
                call == t[p].tool_calls[o.i]
                text == "Error executing " \o call.name \o ": " \o o.outcome.value
            IN  o.outcome.raised =>
                  /\ t[p].exc # Some(o.outcome.value)
                  /\ Len(t[p].tool_results) >= o.i
                  /\ t[p].tool_results[o.i] = text
                  /\ Len(Appended(p)) > o.i =>
                       /\ Appended(p)[o.i + 1].role = "tool"
                       /\ Appended(p)[o.i + 1].content = Some(text)
                       /\ Appended(p)[o.i + 1].tool_call_id = Some(call.id)

C8_Witness ==
    /\ t[1].pc = "returned"
    /\ Len(t[1].tool_calls) = 2
    /\ Len(t[1].outcomes) = 2
    /\ t[1].outcomes[1].outcome.raised
    /\ t[1].outcomes[1].outcome.value # ""
    /\ t[1].final_message # None

\* C9: no tool executor runs with a class_id outside the class ids of the
\* user of the turn.
C9_ExecutorsStayInUserClasses ==
    \A p \in AllTasks :
        \A k \in EventsOf(p, ExecKinds) :
            t[p].log[k].cls \in ClassIdsOf(t[p].user)

\* C10: after any sequence of get_tools_metadata calls, each call returned
\* tool specifications whose class_id enum, for search_knowledge and for
\* generate_exercise, holds exactly the class ids of the user of that call,
\* and the module-level template is what it was at import.
C10_RegistryPerUserEnum ==
    /\ \A k \in 1..Len(reg) :
         \A name \in {"search_knowledge", "generate_exercise"} :
            /\ ClassIdEnum(reg[k].tools, name) # None
            /\ Range(ClassIdEnum(reg[k].tools, name)[1]) = ClassIdsOf(reg[k].user)
            /\ Len(ClassIdEnum(reg[k].tools, name)[1]) = Cardinality(ClassIdsOf(reg[k].user))
    /\ tools_metadata = ToolsMetadataTemplate

C10_Witness ==
    /\ Len(reg) >= 3
    /\ reg[1].user = Asha
    /\ reg[2].user = Baraka
    /\ reg[3].user = Asha

\* the length of an Optional history
HistLen(database_messages) ==
    IF database_messages = None THEN 0 ELSE Len(database_messages[1])

\* C2: for a history H and new messages N with len(H) >= len(N),
\* _format_messages returns one system message, then H without its last
\* len(N) entries, then N, every entry in its place.
C2_FormatDropsLastAndAppends ==
    (fmt.out # None /\ HistLen(fmt.database_messages) >= Len(fmt.new_messages)) =>
        LET out == fmt.out[1]
            N == fmt.new_messages
            H == IF fmt.database_messages = None THEN <<>> ELSE fmt.database_messages[1]
            keep == Len(H) - Len(N)
        IN  /\ out.raised = None
            /\ Len(out.value) = 1 + keep + Len(N)
            /\ out.value[1].role = "system"
            /\ out.value[1].content = Some(SystemPrompt(fmt.user))
            /\ Cardinality({i \in 1..Len(out.value) : out.value[i].role = "system"}) = 1
            /\ \A i \in 1..keep : out.value[1 + i] = ToApiFormat(H[i])
            /\ \A j \in 1..Len(N) : out.value[1 + keep + j] = ToApiFormat(N[j])

C2_Witness ==
    /\ fmt.out # None
    /\ HistLen(fmt.database_messages) = 3
    /\ Len(fmt.new_messages) = 2
    /\ fmt.database_messages[1][1] # fmt.database_messages[1][2]

\* C3 as stated: for every history H, also an empty or absent one, and new
\* messages N with len(H) < len(N), _format_messages fails.
C3_FormatFailsWhenShort ==
    (fmt.out # None /\ HistLen(fmt.database_messages) < Len(fmt.new_messages)) =>
        fmt.out[1].raised # None

\* C3, amended: _format_messages fails with the consistency error exactly
\* when the history is non-empty and shorter than the new messages, and then
\* it returns nothing; for an empty or absent history it returns the system
\* message followed by the new messages.
C3_FormatFailsWhenShortAndNonEmpty ==
    fmt.out # None =>
        LET out == fmt.out[1]
            N == fmt.new_messages
            h == HistLen(fmt.database_messages)
        IN  /\ (out.raised # None) <=> (h > 0 /\ h < Len(N))
            /\ out.raised # None =>
                 /\ out.raised = Some(ConsistencyError(Len(N), h))
                 /\ out.value = <<>>
            /\ h = 0 =>
                 /\ Len(out.value) = 1 + Len(N)
                 /\ out.value[1].role = "system"
                 /\ \A j \in 1..Len(N) : out.value[1 + j] = ToApiFormat(N[j])

C3_Witness ==
    /\ fmt.out # None
    /\ HistLen(fmt.database_messages) = 1
    /\ Len(fmt.new_messages) = 2
    /\ fmt.out[1].raised # None

\* the required arguments of the known tools
Required(tool_name) ==
    IF tool_name = "search_knowledge" THEN <<"search_phrase", "class_id">>
    ELSE <<"query", "class_id", "subject">>

\* an argument is present and of its declared type: class_id an integer,
\* every other argument a non-empty string
WellTyped(key, v) ==
    IF key = "class_id" THEN v.ty = "int" ELSE v.ty = "str" /\ v.s # ""

ValidationErrors ==
    { "Error: " \o k \o " is required and must be a string" :
         k \in {"search_phrase", "query", "subject"} }
    \cup {"Error: class_id is required and must be an integer"}

\* C11: a finished execute_tool_call for search_knowledge or
\* generate_exercise returned a validation error string without entering the
\* executor and without any external call if and only if one of the tool's
\* required arguments is absent or of the wrong type; otherwise the executor
\* was entered.
C11_ValidationIffIllTyped ==
    (xtc.pc \in {"returned", "raised"}
       /\ xtc.tool_name \in {"search_knowledge", "generate_exercise"}) =>
        LET ill == \E k \in Range(Required(xtc.tool_name)) :
                       ~WellTyped(k, Get(xtc.tool_args, k))
            rejected == /\ xtc.result # None
                        /\ xtc.result[1] \in ValidationErrors
                        /\ ~xtc.executor
                        /\ xtc.calls = <<>>
        IN  /\ rejected <=> ill
            /\ ~ill => xtc.executor

\* the tool calls of task p whose name is no known tool
UnknownCalls(p) ==
    {i \in 1..Len(t[p].tool_calls) :
        t[p].tool_calls[i].name \notin {"search_knowledge", "generate_exercise"}}

\* C12: a tool call with an unknown name runs no executor and makes no
\* external call; its result is exactly "Unknown tool: <name>", persisted as
\* a tool message with the call's id and name in the call's place; it is
\* never the cause of an exception leaving generate_response, and once it
\* is handled the turn is at the write of its tool message.
C12_UnknownToolIsReported ==
    \A p \in AllTasks :
        \A i \in UnknownCalls(p) :
            LET call == t[p].tool_calls[i]
                text == "Unknown tool: " \o call.name
            IN  /\ \A k \in 1..Len(t[p].log) :
                     t[p].log[k].kind # "llm" => t[p].log[k].i # i
                /\ \A k \in 1..Len(t[p].outcomes) : t[p].outcomes[k].i # i
                /\ Len(t[p].tool_results) >= i => t[p].tool_results[i] = text
                /\ (t[p].i = i /\ t[p].pc \notin {"exec", "raised"}) =>
                     /\ t[p].pc = "save_tool"
                     /\ Len(t[p].tool_results) = i
                /\ (t[p].i = i /\ t[p].pc = "raised") =>
                     t[p].exc = Some(FailureAt("save_tool"))
                /\ Len(Appended(p)) > i =>
                     Appended(p)[i + 1] =
                         Message(t[p].user.id, "tool", Some(text), None,
                                 Some(call.id), Some(call.name))

\* a completed turn whose first tool call was unknown and whose second ran
\* an executor
C12_Witness ==
    /\ t[1].pc = "returned"
    /\ UnknownCalls(1) = {1}
    /\ Len(t[1].tool_calls) = 2
    /\ Len(t[1].outcomes) = 1
    /\ t[1].outcomes[1].i = 2
    /\ t[1].final_message # None
    /\ \E k \in EventsOf(1, {"llm"}) : t[1].log[k].i = 2

\* the rows of a sequence that are assistant messages without tool calls
FinalMessages(rows) ==
    {k \in 1..Len(rows) : rows[k].role = "assistant" /\ rows[k].tool_calls = None}

C14_AssistantCarriesContentOrCalls ==
    \A k \in 1..Len(db) :
        db[k].role = "assistant" =>
            \/ db[k].content # None /\ db[k].content[1] # ""
            \/ db[k].tool_calls # None /\ db[k].tool_calls[1] # <<>>

\* a is b with some entries left out: every entry of a is an entry of b, no
\* entry of b is used twice, and the order is b's
RECURSIVE IsSubsequence(_, _)
IsSubsequence(a, b) ==
    IF a = <<>> THEN TRUE
    ELSE IF b = <<>> THEN FALSE
    ELSE IF a[1] = b[1] THEN IsSubsequence(Tail(a), Tail(b))
    ELSE IsSubsequence(a, Tail(b))

\* C15: in any interleaving of two turns of one user whose incoming
\* messages are saved before the turn fetches the history, the message list
\* a turn holds for the LLM is, after the system message, the user's
\* persisted rows in creation order with none of them twice, and it holds
\* the turn's incoming message exactly once.
C15_NoDuplicatesInOrder ==
    \A p \in AllTasks :
        t[p].api_messages # <<>> =>
            LET sent == Tail(t[p].api_messages)
                stored == MapApi(UserRows(db, t[p].user.id))
            IN  /\ IsSubsequence(sent, stored)
                /\ Cardinality({k \in 1..Len(sent) :
                                   sent[k] = ToApiFormat(t[p].message)}) = 1

\* C16: whatever the interleaving of get_or_create_user calls, the users
\* table holds at most one row per wa_id, and every finished call returned,
\* without raising, the one row with its wa_id.
C16_OneUserPerWaId ==
    /\ \A w \in WaIds : Len(RowsWithWaId(user_table, w)) <= 1
    /\ \A p \in AllTasks :
         \A k \in 1..Len(guc[p].returns) :
            LET r == guc[p].returns[k]
            IN  /\ r.exc = None
                /\ r.user = Some(RowsWithWaId(user_table, r.wa_id)[1])

C18_ContextListsEveryChunk ==
    ctx.out # None =>
        /\ ctx.out[1].context = JoinLines(ChunkParts(ctx.retrieved_content))
        /\ ctx.retrieved_content # <<>> => ctx.out[1].context # ""
        /\ ctx.out[1].messages[2].content =
               ExerciseUserPrompt(ctx.query, ctx.out[1].context)

\* the ids of the tool calls an api message carries
CallIds(m) ==
    IF m.tool_calls = None THEN {}
    ELSE {m.tool_calls[1][i].id : i \in 1..Len(m.tool_calls[1])}

\* C19: in the message list a turn holds for the LLM, every tool message is
\* preceded by an assistant message whose tool calls include its
\* tool_call_id, and every assistant tool-call message is followed by a
\* tool message for each of its calls.
C19_ToolMessagesArePaired ==
    \A p \in AllTasks :
        LET api == t[p].api_messages
        IN  \A k \in 1..Len(api) :
              /\ api[k].role = "tool" =>
                    \E j \in 1..(k - 1) :
                        /\ api[j].role = "assistant"
                        /\ api[k].tool_call_id # None
                        /\ api[k].tool_call_id[1] \in CallIds(api[j])
              /\ api[k].role = "assistant" =>
                    \A id \in CallIds(api[k]) :
                        \E j \in (k + 1)..Len(api) :
                            /\ api[j].role = "tool"
                            /\ api[j].tool_call_id = Some(id)

=============================================================================
